---- MODULE Spec2Model ----
(***************************************************************************)
(* FloraMood smart pot: the sensor-to-actuation control loop of            *)
(* src/main.rs (the `loop` of `main`, lines 224-292), with the unit        *)
(* converters it calls and the panic handler it falls into.                *)
(*                                                                         *)
(* f32 quantities are modelled as exact rationals [n, d].  For every u16   *)
(* raw code the f32 results of adc_to_voltage, voltage_to_soil_moisture    *)
(* and `+ 7.0` fall on the same side of each threshold of the loop         *)
(* (0, 5, 10, 40, 70) as the exact values, so every comparison below has   *)
(* the outcome it has on the device.  The light level is an integer below  *)
(* 2^24 and is exact as f32.                                               *)
(***************************************************************************)
EXTENDS Integers, Sequences, FiniteSets

VARIABLES
    pc,              \* the statement of main's loop that runs next
    i,               \* `let mut i = 0`: the image index
    value,           \* `let mut value = 1`: the actuator command
    relay,           \* level of the relay output line (PIN_0)
    level,           \* raw temperature code of this cycle
    level_soil,      \* raw soil code of this cycle
    level_light,     \* raw light code of this cycle
    overflow_checks, \* whether the build traps integer overflow
    fault,           \* why the loop stopped, "none" while it runs
    ferris,          \* `ferris`: the index of the image it was last built from
    trace,           \* draws, reads, relay writes and sleeps of this cycle
    advances         \* number of `i = i + 1` executed, capped at MaxAdvances

vars == <<pc, i, value, relay, level, level_soil, level_light,
          overflow_checks, fault, ferris, trace, advances>>

-----------------------------------------------------------------------------
(* Bounds and input domains *)

MaxAdvances == 61

NImages == 60

\* Raw codes the u16 ADC sample can take, chosen around the thresholds:
\* temperature 7.0 C (the lowest code), 8.0 C (1.0 V), exactly 40.0 C, just
\* above 40.0 C.
TempCodes == {0, 310, 10230, 10231}

\* moisture 145.45 % (2.0 V), 10.03 %, 9.97 %, 4.99 %, -58.36 % (the largest
\* 12-bit code).
SoilCodes == {620, 2929, 2930, 3015, 4095}

\* shift-up band, its boundary, mid band on the 2000 threshold, the 3000
\* boundary, the shift-down band below and above the offset, and the code
\* that lands on the 500 threshold.
LightCodes == {999, 1000, 2000, 3000, 3001, 4000, 4500}

-----------------------------------------------------------------------------
(* Exact rational arithmetic standing for f32 *)

RECURSIVE GCD(_, _)
GCD(a, b) == IF b = 0 THEN a ELSE GCD(b, a % b)

Abs(x) == IF x < 0 THEN 0 - x ELSE x

Norm(n, d) ==
    LET s == IF d < 0 THEN 0 - 1 ELSE 1
        g == GCD(Abs(n), Abs(d))
    IN  [n |-> (s * n) \div g, d |-> (s * d) \div g]

R(k) == [n |-> k, d |-> 1]
Dec(n, d) == Norm(n, d)
RAdd(a, b) == Norm(a.n * b.d + b.n * a.d, a.d * b.d)
RSub(a, b) == Norm(a.n * b.d - b.n * a.d, a.d * b.d)
RMul(a, b) == Norm(a.n * b.n, a.d * b.d)
RDiv(a, b) == Norm(a.n * b.d, a.d * b.n)
RLt(a, b) == a.n * b.d < b.n * a.d
RGt(a, b) == a.n * b.d > b.n * a.d

-----------------------------------------------------------------------------
(* Unit converters *)

\* line 66 with 1024 as the full scale
adc_to_voltage_1024(adc_value) ==
    RMul(RDiv(R(adc_value), R(1024)), Dec(33, 10))

\* (adc_value as f32 / 1023 as f32) * 3.3
adc_to_voltage(adc_value) == RMul(RDiv(R(adc_value), R(1023)), Dec(33, 10))

\* ((10.0 - voltage) / (10.0 - 4.5)) * 100.0
voltage_to_soil_moisture(voltage) ==
    RMul(RDiv(RSub(R(10), voltage), RSub(R(10), Dec(45, 10))), R(100))

\* u16 arithmetic of calculate_light: the result the wrapping build produces
U16(x) == x % 65536

\* whether the u16 subtraction or addition leaves 0..65535
LightOverflows(light_adc) ==
    IF light_adc > 3000 THEN light_adc - 4000 < 0
    ELSE IF light_adc < 1000 THEN light_adc + 4000 > 65535
    ELSE FALSE

\* adjusted_adc as f32
calculate_light(light_adc) ==
    LET adjusted_adc == IF light_adc > 3000 THEN U16(light_adc - 4000)
                        ELSE IF light_adc < 1000 THEN U16(light_adc + 4000)
                        ELSE light_adc
    IN  R(adjusted_adc)

-----------------------------------------------------------------------------
(* The image table and the decision policy *)

\* the 60 images pushed at lines 157-216: images[k] is image_<k>.raw
images == [k \in 1..NImages |-> k]

\* NextIndex without the wrap of line 231
NextIndexNoWrap(index) == index + 1

\* lines 230-231 with the index reset to 0 at the wrap
NextIndexMod60(index) == (index + 1) % 60

\* i = i + 1; if (i % 60 == 0) { i = i / 60; }
NextIndex(index) ==
    LET j == index + 1
    IN  IF j % 60 = 0 THEN j \div 60 ELSE j

\* line 247 with || between the three groups
AlertConditionAny(m, l, t) ==
    \/ (RLt(m, R(5)) \/ RGt(m, R(70)))
    \/ (RLt(l, R(500)) \/ RGt(l, R(2000)))
    \/ (RLt(t, R(0)) \/ RGt(t, R(40)))

\* the condition of line 247
AlertCondition(m, l, t) ==
    /\ (RLt(m, R(5)) \/ RGt(m, R(70)))
    /\ (RLt(l, R(500)) \/ RGt(l, R(2000)))
    /\ (RLt(t, R(0)) \/ RGt(t, R(40)))

\* line 252 with the alert's lower moisture bound in place of 10.0
IsDryBelow5(m) == RLt(m, R(5))

\* line 271 with >= in place of >
IsBrightOrEqual(l) == ~RLt(l, R(2000))

\* line 280 with 4.0 in place of 40.0
IsHotAbove4(t) == RGt(t, R(4))

IsDry(m) == RLt(m, R(10))
IsWet(m) == RGt(m, R(10))
IsDark(l) == RLt(l, R(500))
IsBright(l) == RGt(l, R(2000))
IsFrozen(t) == RLt(t, R(0))
IsHot(t) == RGt(t, R(40))

\* match value { 0 => relay.set_low(), _ => relay.set_high() }
RelayLevel(v) == IF v = 0 THEN "Low" ELSE "High"
RelayEvent(v) == IF v = 0 THEN "set_low" ELSE "set_high"

-----------------------------------------------------------------------------
(* The readings of the current cycle *)

\* line 235 with the offset subtracted
temperature_value_minus == RSub(adc_to_voltage(level), R(7))

temperature_value == RAdd(adc_to_voltage(level), R(7))
soil_value == adc_to_voltage(level_soil)
soil_moisture == voltage_to_soil_moisture(soil_value)
light_value == calculate_light(level_light)

-----------------------------------------------------------------------------
(* The control loop *)

\* the statements of one cycle, in program order
Steps == <<"fine", "ferris", "read_temperature", "read_soil", "read_light",
           "text", "dry", "wet", "relay", "dark", "diamond", "frozen", "hot",
           "yield", "sleep">>

Pos(p) == CHOOSE k \in 1..Len(Steps) : Steps[k] = p

Init ==
    /\ pc = "fine"
    /\ i = 0
    /\ value = 1
    /\ relay = "Low"
    /\ level = 0
    /\ level_soil = 0
    /\ level_light = 0
    /\ overflow_checks \in BOOLEAN
    /\ fault = "none"
    /\ ferris = 0
    /\ trace = <<>>
    /\ advances = 0

\* `.unwrap()` on an Err, an overflow trap or a failed bounds check: the
\* panic handler is entered and nothing else of the cycle runs
Halt(cause) ==
    /\ pc' = "panic"
    /\ fault' = cause

\* fine.draw(&mut display).unwrap(); info!("{}", i);
DrawFine ==
    /\ pc = "fine"
    /\ \/ /\ pc' = "ferris"
          /\ trace' = Append(trace, "fine")
          /\ UNCHANGED fault
       \/ /\ Halt("draw")
          /\ UNCHANGED trace
    /\ UNCHANGED <<i, value, relay, level, level_soil, level_light,
                   overflow_checks, ferris, advances>>

\* lines 227-231 with the advance of lines 230-231 moved before the select
DrawFerrisAdvanceFirst ==
    /\ pc = "ferris"
    /\ \/ /\ NextIndex(i) + 1 \in DOMAIN images
          /\ ferris' = NextIndex(i)
          /\ i' = NextIndex(i)
          /\ advances' = IF advances < MaxAdvances
                         THEN advances + 1 ELSE advances
          /\ \/ /\ pc' = "read_temperature"
                /\ trace' = Append(trace, "ferris")
                /\ UNCHANGED fault
             \/ /\ Halt("draw")
                /\ UNCHANGED trace
       \/ /\ NextIndex(i) + 1 \notin DOMAIN images
          /\ Halt("index")
          /\ UNCHANGED <<i, ferris, trace, advances>>
    /\ UNCHANGED <<value, relay, level, level_soil, level_light,
                   overflow_checks>>

\* ferris = Image::new(&images[i], ..); ferris.draw(..).unwrap();
\* i = i + 1; if (i % 60 == 0) { i = i / 60; }
DrawFerris ==
    /\ pc = "ferris"
    /\ \/ /\ i + 1 \in DOMAIN images
          /\ ferris' = i
          /\ \/ /\ pc' = "read_temperature"
                /\ trace' = Append(trace, "ferris")
                /\ i' = NextIndex(i)
                /\ advances' = IF advances < MaxAdvances
                               THEN advances + 1 ELSE advances
                /\ UNCHANGED fault
             \/ /\ Halt("draw")
                /\ UNCHANGED <<i, trace, advances>>
       \/ /\ i + 1 \notin DOMAIN images
          /\ Halt("index")
          /\ UNCHANGED <<i, ferris, trace, advances>>
    /\ UNCHANGED <<value, relay, level, level_soil, level_light,
                   overflow_checks>>

\* let level = adc.read(&mut temperature_sensor).await.unwrap();
\* let temperature_value = adc_to_voltage(level) + 7.0;
ReadTemperature ==
    /\ pc = "read_temperature"
    /\ \/ /\ \E code \in TempCodes : level' = code
          /\ pc' = "read_soil"
          /\ trace' = Append(trace, "read_temperature")
          /\ UNCHANGED fault
       \/ /\ Halt("read")
          /\ UNCHANGED <<level, trace>>
    /\ UNCHANGED <<i, value, relay, level_soil, level_light,
                   overflow_checks, ferris, advances>>

\* let level_soil = adc.read(&mut soil_sensor).await.unwrap();
ReadSoil ==
    /\ pc = "read_soil"
    /\ \/ /\ \E code \in SoilCodes : level_soil' = code
          /\ pc' = "read_light"
          /\ trace' = Append(trace, "read_soil")
          /\ UNCHANGED fault
       \/ /\ Halt("read")
          /\ UNCHANGED <<level_soil, trace>>
    /\ UNCHANGED <<i, value, relay, level, level_light,
                   overflow_checks, ferris, advances>>

\* lines 238-245 with a range assertion on the moisture percentage added
ReadLightValidated ==
    /\ pc = "read_light"
    /\ \/ /\ \E code \in LightCodes :
                /\ level_light' = code
                /\ IF RLt(soil_moisture, R(0)) \/ RGt(soil_moisture, R(100))
                   THEN Halt("range")
                   ELSE IF overflow_checks /\ LightOverflows(code)
                        THEN Halt("overflow")
                        ELSE pc' = "text" /\ UNCHANGED fault
          /\ trace' = Append(trace, "read_light")
       \/ /\ Halt("read")
          /\ UNCHANGED <<level_light, trace>>
    /\ UNCHANGED <<i, value, relay, level, level_soil,
                   overflow_checks, ferris, advances>>

\* let level_light = adc.read(&mut light_sensor).await.unwrap();
\* the conversions of lines 241-245; calculate_light's u16 arithmetic
\* traps in a build with overflow checks and wraps in one without
ReadLight ==
    /\ pc = "read_light"
    /\ \/ /\ \E code \in LightCodes :
                /\ level_light' = code
                /\ IF overflow_checks /\ LightOverflows(code)
                   THEN Halt("overflow")
                   ELSE pc' = "text" /\ UNCHANGED fault
          /\ trace' = Append(trace, "read_light")
       \/ /\ Halt("read")
          /\ UNCHANGED <<level_light, trace>>
    /\ UNCHANGED <<i, value, relay, level, level_soil,
                   overflow_checks, ferris, advances>>

\* lines 247-249 with the 100 ms pause of the other draws added
TextWithSleep ==
    /\ pc = "text"
    /\ IF AlertCondition(soil_moisture, light_value, temperature_value)
       THEN \/ /\ pc' = "dry"
               /\ trace' = trace \o <<"text", "sleep100">>
               /\ UNCHANGED fault
            \/ /\ Halt("draw")
               /\ UNCHANGED trace
       ELSE /\ pc' = "dry"
            /\ UNCHANGED <<trace, fault>>
    /\ UNCHANGED <<i, value, relay, level, level_soil, level_light,
                   overflow_checks, ferris, advances>>

\* if (..) && (..) && (..) { text.draw(&mut display).unwrap(); }
Text ==
    /\ pc = "text"
    /\ IF AlertCondition(soil_moisture, light_value, temperature_value)
       THEN \/ /\ pc' = "dry"
               /\ trace' = Append(trace, "text")
               /\ UNCHANGED fault
            \/ /\ Halt("draw")
               /\ UNCHANGED trace
       ELSE /\ pc' = "dry"
            /\ UNCHANGED <<trace, fault>>
    /\ UNCHANGED <<i, value, relay, level, level_soil, level_light,
                   overflow_checks, ferris, advances>>

\* if soil_moisture < 10.0 { dry.draw(..).unwrap();
\*     Timer::after_millis(100).await; value = 0; }
Dry ==
    /\ pc = "dry"
    /\ IF IsDry(soil_moisture)
       THEN \/ /\ pc' = "wet"
               /\ trace' = trace \o <<"dry", "sleep100">>
               /\ value' = 0
               /\ UNCHANGED fault
            \/ /\ Halt("draw")
               /\ UNCHANGED <<trace, value>>
       ELSE /\ pc' = "wet"
            /\ UNCHANGED <<trace, value, fault>>
    /\ UNCHANGED <<i, relay, level, level_soil, level_light,
                   overflow_checks, ferris, advances>>

\* if soil_moisture > 10.0 { wet.draw(..).unwrap();
\*     Timer::after_millis(100).await; value = 1; }
Wet ==
    /\ pc = "wet"
    /\ IF IsWet(soil_moisture)
       THEN \/ /\ pc' = "relay"
               /\ trace' = trace \o <<"wet", "sleep100">>
               /\ value' = 1
               /\ UNCHANGED fault
            \/ /\ Halt("draw")
               /\ UNCHANGED <<trace, value>>
       ELSE /\ pc' = "relay"
            /\ UNCHANGED <<trace, value, fault>>
    /\ UNCHANGED <<i, relay, level, level_soil, level_light,
                   overflow_checks, ferris, advances>>

\* match value { 0 => relay.set_low(), _ => relay.set_high() }
Relay ==
    /\ pc = "relay"
    /\ relay' = RelayLevel(value)
    /\ trace' = Append(trace, RelayEvent(value))
    /\ pc' = "dark"
    /\ UNCHANGED <<i, value, level, level_soil, level_light,
                   overflow_checks, fault, ferris, advances>>

\* lines 266-270 with the relay.set_low() of line 269 not commented out
DarkWithRelayWrite ==
    /\ pc = "dark"
    /\ IF IsDark(light_value)
       THEN \/ /\ pc' = "diamond"
               /\ trace' = trace \o <<"dark", "sleep100", "set_low">>
               /\ relay' = "Low"
               /\ UNCHANGED fault
            \/ /\ Halt("draw")
               /\ UNCHANGED <<trace, relay>>
       ELSE /\ pc' = "diamond"
            /\ UNCHANGED <<trace, relay, fault>>
    /\ UNCHANGED <<i, value, level, level_soil, level_light,
                   overflow_checks, ferris, advances>>

\* if light_value < 500.0 { dark.draw(..).unwrap();
\*     Timer::after_millis(100).await; }
Dark ==
    /\ pc = "dark"
    /\ IF IsDark(light_value)
       THEN \/ /\ pc' = "diamond"
               /\ trace' = trace \o <<"dark", "sleep100">>
               /\ UNCHANGED fault
            \/ /\ Halt("draw")
               /\ UNCHANGED trace
       ELSE /\ pc' = "diamond"
            /\ UNCHANGED <<trace, fault>>
    /\ UNCHANGED <<i, value, relay, level, level_soil, level_light,
                   overflow_checks, ferris, advances>>

\* lines 271-275 with the relay.set_high() of line 274 not commented out
DiamondWithRelayWrite ==
    /\ pc = "diamond"
    /\ IF IsBright(light_value)
       THEN \/ /\ pc' = "frozen"
               /\ trace' = trace \o <<"diamond", "sleep100", "set_high">>
               /\ relay' = "High"
               /\ UNCHANGED fault
            \/ /\ Halt("draw")
               /\ UNCHANGED <<trace, relay>>
       ELSE /\ pc' = "frozen"
            /\ UNCHANGED <<trace, relay, fault>>
    /\ UNCHANGED <<i, value, level, level_soil, level_light,
                   overflow_checks, ferris, advances>>

\* if light_value > 2000.0 { diamond.draw(..).unwrap();
\*     Timer::after_millis(100).await; }
Diamond ==
    /\ pc = "diamond"
    /\ IF IsBright(light_value)
       THEN \/ /\ pc' = "frozen"
               /\ trace' = trace \o <<"diamond", "sleep100">>
               /\ UNCHANGED fault
            \/ /\ Halt("draw")
               /\ UNCHANGED trace
       ELSE /\ pc' = "frozen"
            /\ UNCHANGED <<trace, fault>>
    /\ UNCHANGED <<i, value, relay, level, level_soil, level_light,
                   overflow_checks, ferris, advances>>

\* if temperature_value < 0.0 { frozen.draw(..).unwrap();
\*     Timer::after_millis(100).await; }
Frozen ==
    /\ pc = "frozen"
    /\ IF IsFrozen(temperature_value)
       THEN \/ /\ pc' = "hot"
               /\ trace' = trace \o <<"frozen", "sleep100">>
               /\ UNCHANGED fault
            \/ /\ Halt("draw")
               /\ UNCHANGED trace
       ELSE /\ pc' = "hot"
            /\ UNCHANGED <<trace, fault>>
    /\ UNCHANGED <<i, value, relay, level, level_soil, level_light,
                   overflow_checks, ferris, advances>>

\* if temperature_value > 40.0 { hot.draw(..).unwrap();
\*     Timer::after_millis(100).await; }
Hot ==
    /\ pc = "hot"
    /\ IF IsHot(temperature_value)
       THEN \/ /\ pc' = "yield"
               /\ trace' = trace \o <<"hot", "sleep100">>
               /\ UNCHANGED fault
            \/ /\ Halt("draw")
               /\ UNCHANGED trace
       ELSE /\ pc' = "yield"
            /\ UNCHANGED <<trace, fault>>
    /\ UNCHANGED <<i, value, relay, level, level_soil, level_light,
                   overflow_checks, ferris, advances>>

\* info!(..); info!(..); Timer::after_millis(16).await  -- the timer is armed
Yield ==
    /\ pc = "yield"
    /\ pc' = "sleep"
    /\ trace' = Append(trace, "sleep16")
    /\ UNCHANGED <<i, value, relay, level, level_soil, level_light,
                   overflow_checks, fault, ferris, advances>>

\* the 16 ms timer fires and `loop` starts its next iteration; the `let`
\* bindings of the finished iteration are gone
Wake ==
    /\ pc = "sleep"
    /\ pc' = "fine"
    /\ trace' = <<>>
    /\ level' = 0
    /\ level_soil' = 0
    /\ level_light' = 0
    /\ UNCHANGED <<i, value, relay, overflow_checks, fault, ferris,
                   advances>>

\* a panic handler that resets the device and re-enters main
panic_reset ==
    /\ pc = "panic"
    /\ pc' = "fine"
    /\ i' = 0
    /\ value' = 1
    /\ relay' = "Low"
    /\ level' = 0
    /\ level_soil' = 0
    /\ level_light' = 0
    /\ fault' = "none"
    /\ ferris' = 0
    /\ trace' = <<>>
    /\ UNCHANGED <<overflow_checks, advances>>

\* #[panic_handler] fn panic(_info) -> ! { loop {} }
panic ==
    /\ pc = "panic"
    /\ UNCHANGED vars

Next ==
    \/ DrawFine
    \/ DrawFerris
    \/ ReadTemperature
    \/ ReadSoil
    \/ ReadLight
    \/ Text
    \/ Dry
    \/ Wet
    \/ Relay
    \/ Dark
    \/ Diamond
    \/ Frozen
    \/ Hot
    \/ Yield
    \/ Wake
    \/ panic

Spec == Init /\ [][Next]_vars

-----------------------------------------------------------------------------
(* Observations on the trace of the current cycle *)

\* the cycle has run the statement p and has not stopped
Past(p) == pc # "panic" /\ Pos(pc) > Pos(p)

Drawn(ev) == \E k \in DOMAIN trace : trace[k] = ev

Count(ev) == Cardinality({k \in DOMAIN trace : trace[k] = ev})

RelayWrites == Count("set_low") + Count("set_high")

-----------------------------------------------------------------------------
(* C1 *)

-----------------------------------------------------------------------------
(* C2 *)

\* C2: once a cycle is past the alert check, "Rust in peace" has been drawn
\* in it iff moisture is below 5.0 or above 70.0, and light is below 500.0 or
\* above 2000.0, and temperature is below 0.0 or above 40.0.
C2_ConjunctiveAlert ==
    Past("text") =>
        (Drawn("text") <=>
            /\ (RLt(soil_moisture, R(5)) \/ RGt(soil_moisture, R(70)))
            /\ (RLt(light_value, R(500)) \/ RGt(light_value, R(2000)))
            /\ (RLt(temperature_value, R(0)) \/ RGt(temperature_value, R(40))))

\* the alert is drawn in a cycle whose three readings are all out of band
C2_Witness ==
    /\ Past("text")
    /\ Drawn("text")
    /\ level = 10231
    /\ level_soil = 3015
    /\ level_light = 4000

-----------------------------------------------------------------------------
(* C3 *)

\* C3: the index that selects from the image table, and the index the current
\* image was selected with, are within 0..N-1, and no lookup has gone out of
\* bounds.
C3_IndexInRange ==
    /\ i \in 0..(NImages - 1)
    /\ ferris \in 0..(NImages - 1)
    /\ fault # "index"

\* the last image of the table has been selected and the index has moved on
C3_Witness ==
    /\ advances = NImages
    /\ ferris = NImages - 1
    /\ Drawn("ferris")

-----------------------------------------------------------------------------
(* C4 *)

\* C4: after k advances from the initial index 0 the index is k mod N, so
\* after exactly N advances it is back at 0.
C4_IndexModN ==
    advances < MaxAdvances => i = advances % NImages

-----------------------------------------------------------------------------
(* C5 *)

\* C5: once the light code c has been read, calculate_light has produced
\* c - 4000 when c > 3000, c + 4000 when c < 1000, and c otherwise.
C5_LightRecentred ==
    Drawn("read_light") =>
        /\ fault # "overflow"
        /\ light_value = R(IF level_light > 3000 THEN level_light - 4000
                           ELSE IF level_light < 1000 THEN level_light + 4000
                           ELSE level_light)

-----------------------------------------------------------------------------
(* C6 *)

\* C6: for every light code read, the subtraction or addition of 4000 that
\* calculate_light performs stays within 0..65535, and the call returns.
C6_LightTotal ==
    Drawn("read_light") =>
        LET shifted == IF level_light > 3000 THEN level_light - 4000
                       ELSE IF level_light < 1000 THEN level_light + 4000
                       ELSE level_light
        IN  shifted \in 0..65535 /\ fault # "overflow"

-----------------------------------------------------------------------------
(* C7 *)

\* C7: a running cycle has written the relay line exactly once when it is
\* past the match of lines 262-265, and not at all before it; a stopped one
\* has written it at most once.
C7_OneRelayWrite ==
    /\ pc # "panic" => RelayWrites = (IF Pos(pc) > Pos("relay") THEN 1 ELSE 0)
    /\ pc = "panic" => RelayWrites <= 1

\* a cycle has reached its final yield with its one relay write made
C7_Witness ==
    /\ pc = "sleep"
    /\ Drawn("sleep16")
    /\ Drawn("dark")
    /\ RelayWrites = 1

-----------------------------------------------------------------------------
(* C8 *)

\* C8: a failed sensor read or display draw puts the loop in the panic
\* handler, and from the panic handler nothing changes any more: no draw,
\* sample, sleep or relay write is added, the loop does not resume, and the
\* relay keeps its level; entering the handler does not touch the relay.
C8_FailFastHalt ==
    /\ [](fault # "none" => pc = "panic")
    /\ [][pc' = "panic" => relay' = relay]_vars
    /\ [][pc = "panic" =>
            /\ pc' = "panic"
            /\ relay' = relay
            /\ trace' = trace
            /\ i' = i
            /\ value' = value]_vars

\* a draw failed after the relay had been set high in the same cycle
C8_Witness ==
    /\ pc = "panic"
    /\ fault = "draw"
    /\ Drawn("set_high")
    /\ relay = "High"

-----------------------------------------------------------------------------
(* C9 *)

\* C9: the relay writes are decided by the soil codes alone: in a cycle that
\* has read its soil code and in which no sensor read and no display draw has
\* failed, once the cycle is past the match of lines 262-265 or has stopped,
\* the relay has been written once, with the level the soil code gives,
\* whatever the temperature and light codes are.
C9_RelayFromSoilOnly ==
    (/\ Drawn("read_soil")
     /\ fault \notin {"read", "draw"}
     /\ (pc = "panic" \/ Pos(pc) > Pos("relay"))) =>
        /\ RelayWrites = 1
        /\ relay = IF level_soil >= 2930 THEN "Low" ELSE "High"

-----------------------------------------------------------------------------
(* C10 *)

\* C10: when a cycle reaches its final yield, each of the six texts has been
\* drawn in it iff its quantity is strictly beyond its threshold: dry iff
\* moisture < 10.0, wet iff moisture > 10.0, dark iff light < 500.0, shine
\* iff light > 2000.0, frozen iff temperature < 0.0, hot iff
\* temperature > 40.0.
C10_FlagsFollowThresholds ==
    Past("hot") =>
        /\ Drawn("dry") <=> RLt(soil_moisture, R(10))
        /\ Drawn("wet") <=> RGt(soil_moisture, R(10))
        /\ Drawn("dark") <=> RLt(light_value, R(500))
        /\ Drawn("diamond") <=> RGt(light_value, R(2000))
        /\ Drawn("frozen") <=> RLt(temperature_value, R(0))
        /\ Drawn("hot") <=> RGt(temperature_value, R(40))

\* a cycle with light exactly 2000.0 and temperature exactly 40.0 ends with
\* the dry text drawn and neither the shine nor the hot text
C10_Witness ==
    /\ pc = "yield"
    /\ level = 10230
    /\ level_light = 2000
    /\ Drawn("dry")
    /\ ~Drawn("diamond")
    /\ ~Drawn("hot")

-----------------------------------------------------------------------------
(* C11 *)

\* C11: for every raw code read from the temperature or the soil channel,
\* adc_to_voltage(code) lies within 0 .. 3.3 V.
C11_VoltageRange ==
    /\ Drawn("read_temperature") =>
          /\ ~RLt(adc_to_voltage(level), R(0))
          /\ ~RGt(adc_to_voltage(level), Dec(33, 10))
    /\ Drawn("read_soil") =>
          /\ ~RLt(soil_value, R(0))
          /\ ~RGt(soil_value, Dec(33, 10))

-----------------------------------------------------------------------------
(* C12 *)

\* C12: in a cycle whose moisture percentage is below 0 or above 100, the
\* loop stops only for a failed read, a failed draw or the light overflow,
\* never for the moisture value; the dry/wet text and the relay follow the
\* < 10.0 / > 10.0 rule on the unclamped value.
C12_OutOfRangeMoisture ==
    (/\ Drawn("read_soil")
     /\ (RLt(soil_moisture, R(0)) \/ RGt(soil_moisture, R(100)))) =>
        /\ pc = "panic" => fault \in {"read", "draw", "overflow"}
        /\ Past("wet") =>
              /\ Drawn("dry") <=> RLt(soil_moisture, R(10))
              /\ Drawn("wet") <=> RGt(soil_moisture, R(10))
        /\ Past("relay") =>
              relay = IF RLt(soil_moisture, R(10)) THEN "Low" ELSE "High"

\* the cycle with soil code 620 (2.0 V, 145.45 %) has reached its final
\* yield with the wet text drawn and the relay high
C12_Witness ==
    /\ pc = "sleep"
    /\ level_soil = 620
    /\ RGt(soil_moisture, R(100))
    /\ Drawn("wet")
    /\ Drawn("set_high")
    /\ relay = "High"

-----------------------------------------------------------------------------
(* C13 *)

\* the place of an event in the order the claim states
StepRank(ev) ==
    CASE ev \in {"fine", "ferris"} -> 0
      [] ev = "read_temperature" -> 1
      [] ev = "read_soil" -> 2
      [] ev = "read_light" -> 3
      [] ev = "text" -> 4
      [] ev \in {"dry", "wet"} -> 5
      [] ev \in {"set_low", "set_high"} -> 6
      [] ev \in {"dark", "diamond"} -> 7
      [] ev \in {"frozen", "hot"} -> 8
      [] OTHER -> 9

\* C13: within a cycle the events come in the order temperature sample, soil
\* sample, light sample, alert draw, dry/wet draw, relay write, dark/shine
\* draw, frozen/hot draw; the command is assigned before the relay write, and
\* the level written is the one this cycle's soil reading gives.
C13_StepOrder ==
    /\ \A a, b \in DOMAIN trace :
          (a < b /\ trace[a] # "sleep100" /\ trace[b] # "sleep100") =>
              /\ StepRank(trace[a]) <= StepRank(trace[b])
              /\ StepRank(trace[a]) = StepRank(trace[b]) =>
                    StepRank(trace[a]) = 0
    /\ RelayWrites > 0 =>
          /\ Drawn("read_soil")
          /\ Drawn("dry") \/ Drawn("wet")
          /\ relay = RelayLevel(value)
          /\ relay = IF RLt(soil_moisture, R(10)) THEN "Low" ELSE "High"

\* a cycle that drew the alert, the dry text, the dark text and the hot text
\* has reached its final yield
C13_Witness ==
    /\ pc = "yield"
    /\ Drawn("text")
    /\ Drawn("dry")
    /\ Drawn("set_low")
    /\ Drawn("dark")
    /\ Drawn("hot")

-----------------------------------------------------------------------------
(* C14 *)

\* C14 as claimed: the image drawn in the k-th cycle is the one at index
\* k mod N, the index after that cycle's advance.
C14_AdvanceBeforeSelect ==
    (Drawn("ferris") /\ advances < MaxAdvances) =>
        ferris = advances % NImages

\* C14 as amended: the image drawn in a cycle is the one at the index as it
\* stands before that cycle's advance; the k-th cycle, k = 1..N, draws the
\* image at index k - 1.
C14_SelectBeforeAdvance ==
    /\ [][(pc = "ferris" /\ pc' = "read_temperature") => ferris' = i]_vars
    /\ []((Drawn("ferris") /\ advances <= NImages) => ferris = advances - 1)

\* the second cycle has drawn the image at index 1
C14_Witness ==
    /\ Drawn("ferris")
    /\ advances = 2
    /\ ferris = 1
    /\ i = 2

-----------------------------------------------------------------------------
(* C15 *)

\* C15: the 16 ms suspension happens once per cycle, as the cycle's last
\* event, after its relay write; a new cycle starts only out of that
\* suspension; every other suspension is a 100 ms one that directly follows
\* a dry, wet, dark, shine, frozen or hot draw.
C15_OneYield ==
    /\ [](pc = "sleep" =>
            /\ Count("sleep16") = 1
            /\ trace[Len(trace)] = "sleep16"
            /\ RelayWrites = 1)
    /\ [](pc # "sleep" => Count("sleep16") = 0)
    /\ [](\A k \in DOMAIN trace :
            trace[k] = "sleep100" =>
                /\ k > 1
                /\ trace[k - 1] \in {"dry", "wet", "dark", "diamond",
                                     "frozen", "hot"})
    /\ [][(pc # "fine" /\ pc' = "fine") => (pc = "sleep" /\ trace' = <<>>)]_vars

\* a cycle that paused after its wet and shine draws is in its final yield
C15_Witness ==
    /\ pc = "sleep"
    /\ trace[Len(trace)] = "sleep16"
    /\ Count("sleep100") = 2
    /\ Drawn("wet")
    /\ Drawn("diamond")

-----------------------------------------------------------------------------
(* C16 *)

\* C16: the loop has no terminal state other than a failed sensor read or a
\* failed display draw: whatever the raw codes are, the loop is in the panic
\* handler, the one place where it takes no further step, only if a read or
\* a draw has failed.  Every other statement of the loop has a next step, so
\* a fairly scheduled loop then goes on to its final yield, its next cycle
\* and its next relay write.
C16_NoTerminalState ==
    pc = "panic" => fault \in {"read", "draw"}

-----------------------------------------------------------------------------
(* C17 *)

\* the converter on the whole u16 domain of the temperature sample
TemperatureAtLeastSeven ==
    \A code \in 0..65535 : ~RLt(RAdd(adc_to_voltage(code), R(7)), R(7))

\* C17: for every u16 temperature code the temperature is at least 7.0; the
\* temperature of a cycle is never below 7.0, the "Frozen castle"
\* text is never drawn, and whenever the alert text is drawn the temperature
\* is above 40.0.
C17_FrozenUnreachable ==
    /\ TemperatureAtLeastSeven
    /\ Drawn("read_temperature") => ~RLt(temperature_value, R(7))
    /\ ~Drawn("frozen")
    /\ Drawn("text") => RGt(temperature_value, R(40))

\* a cycle with the lowest temperature code, 7.0 C, is past the frozen check
\* with the text not drawn
C17_Witness ==
    /\ Past("frozen")
    /\ level = 0
    /\ Drawn("read_temperature")
    /\ temperature_value = R(7)
    /\ ~Drawn("frozen")

-----------------------------------------------------------------------------
(* C18 *)

\* the converter on the whole u16 domain of the temperature sample
HotOnlyAbove10230 ==
    \A code \in 0..65535 :
        RGt(RAdd(adc_to_voltage(code), R(7)), R(40)) <=> code > 10230

\* C18: a u16 temperature code gives more than 40.0 iff it is above 10230;
\* in a cycle in which the alert text or the "Too hot" text is drawn the
\* temperature is above 40.0 and the raw temperature code is above 10230; a
\* cycle that drew the alert draws "Too hot" as well; so a cycle whose
\* temperature code is within 0..4095 draws neither.
C18_AlertImpliesHot ==
    /\ HotOnlyAbove10230
    /\ (Drawn("text") \/ Drawn("hot")) =>
          /\ RGt(temperature_value, R(40))
          /\ level > 10230
    /\ (Past("hot") /\ Drawn("text")) => Drawn("hot")
    /\ (Drawn("read_temperature") /\ level <= 4095) =>
          (~Drawn("text") /\ ~Drawn("hot"))

\* a cycle with temperature code 10231 has drawn the alert and then "Too hot"
C18_Witness ==
    /\ Past("hot")
    /\ level = 10231
    /\ Drawn("text")
    /\ Drawn("hot")

-----------------------------------------------------------------------------
(* C19 *)

\* the converters on the whole u16 domain of the soil sample
MoistureSidesOfTen ==
    \A code \in 0..65535 :
        LET m == voltage_to_soil_moisture(adc_to_voltage(code))
        IN  IF code >= 2930 THEN RLt(m, R(10)) ELSE RGt(m, R(10))

\* C19: for every u16 soil code the moisture is below 10.0 when the code is
\* >= 2930 and above 10.0 otherwise, so never exactly 10.0; past the dry/wet
\* checks exactly one of the two texts has been drawn and the command is 0
\* iff the soil code is >= 2930; past the relay write the relay is Low iff
\* the soil code is >= 2930 and High iff it is <= 2929, whatever the command
\* was when the cycle started.
C19_StickyUnreachable ==
    /\ MoistureSidesOfTen
    /\ Drawn("read_soil") =>
          (RLt(soil_moisture, R(10)) \/ RGt(soil_moisture, R(10)))
    /\ Past("wet") =>
          /\ Drawn("dry") # Drawn("wet")
          /\ Drawn("dry") <=> level_soil >= 2930
          /\ value = IF level_soil >= 2930 THEN 0 ELSE 1
    /\ Past("relay") =>
          /\ level_soil >= 2930 => (relay = "Low" /\ Drawn("set_low"))
          /\ level_soil <= 2929 => (relay = "High" /\ Drawn("set_high"))

\* a cycle after the first, with soil code 2929, has set the relay high
C19_Witness ==
    /\ pc = "sleep"
    /\ advances >= 2
    /\ level_soil = 2929
    /\ relay = "High"
    /\ Drawn("wet")

-----------------------------------------------------------------------------
(* C20 *)

\* C20: the first cycle draws the image at index 0; every later cycle draws
\* an index in 1..59, the one after the previous cycle's with 59 followed by
\* 1, so that the drawn indices repeat with period 59 and index 0 is not
\* drawn again.
C20_ImageZeroOnce ==
    /\ []((Drawn("ferris") /\ advances = 1) => ferris = 0)
    /\ []((Drawn("ferris") /\ advances >= 2) => ferris \in 1..59)
    /\ [](advances >= 1 => i \in 1..59)
    /\ [][(pc = "ferris" /\ pc' = "read_temperature" /\ advances >= 1) =>
            ferris' = (ferris % 59) + 1]_vars

\* the 61st cycle has drawn the image at index 1 again
C20_Witness ==
    /\ Drawn("ferris")
    /\ advances = 61
    /\ ferris = 1
    /\ i = 2

====
